---- MODULE Spec2Model ----
(***************************************************************************)
(* The dashboard scripts app/static/js/admin.js and app/static/js/user.js: *)
(* the section/tab switcher, the employee list fetch and, in admin.js, the *)
(* pagination state (currentPage, totalEmployees) with its prev/next       *)
(* controls.  One behaviour is the life of one loaded page: the script     *)
(* has run its top-level code (Init), then click handlers and the          *)
(* continuations of the pending fetches run one at a time on the event     *)
(* loop, in any order.                                                     *)
(***************************************************************************)
EXTENDS Integers, Sequences, FiniteSets

VARIABLES
    script,                 \* which script the page runs: "admin" or "user"
    currentPage,            \* admin.js:50
    totalEmployees,         \* admin.js:52
    inflight,               \* pending /employees requests, in issue order (page asked; Unpaged in user.js)
    clubInflight,           \* number of pending /clubs requests
    userRows,               \* what #userRows shows: [kind, page]
    clubCards,              \* what #clubCards shows
    prevDisabled,           \* prevPageBtn.disabled
    nextDisabled,           \* nextPageBtn.disabled
    currentPageNumDisplay,  \* currentPageNumDisplay.innerText
    totalPageNumDisplay,    \* totalPageNumDisplay.innerText
    sectionDisplay,         \* section -> style.display
    sectionHidden,          \* section -> has class "hidden"
    navActive,              \* the tabs that carry class "nav-active"
    lastResp,               \* ghost: the response fetchUsers resumed with last, NoResp after a new fetchUsers call
    overlapped,             \* ghost: the latest fetchUsers call was made while another request was pending
    burst                   \* ghost: the run of same-direction prev/next clicks made with no response handled in between

vars == <<script, currentPage, totalEmployees, inflight, clubInflight, userRows,
          clubCards, prevDisabled, nextDisabled, currentPageNumDisplay,
          totalPageNumDisplay, sectionDisplay, sectionHidden, navActive, lastResp,
          overlapped, burst>>

pageVars == <<currentPage, totalEmployees>>
uiVars   == <<prevDisabled, nextDisabled, currentPageNumDisplay, totalPageNumDisplay>>
secVars  == <<sectionDisplay, sectionHidden, navActive>>
clubVars == <<clubInflight, clubCards>>

-----------------------------------------------------------------------------
(* Bounds *)

MaxTotal == 15          \* largest collection size the server reports
MaxInFlight == 2        \* most /employees requests pending at once
MaxClubInFlight == 1    \* most /clubs requests pending at once

-----------------------------------------------------------------------------
(* Constants of the scripts *)

pageSize == 7

Unpaged == 0            \* user.js asks "/employees/" with no page parameter
HtmlText == 0           \* a page-number display updatePaginationUI has not written yet

Sections == {"employeesSection", "clubSection"}
NavTabs  == {"usersTab", "clubTab", "attendanceTab", "scanTab", "punchTab", "logoutTab"}

Min(a, b) == IF a < b THEN a ELSE b
Max(a, b) == IF a > b THEN a ELSE b

\* Math.ceil(a / b) for integers a >= 0, b > 0
MathCeilDiv(a, b) == IF a % b = 0 THEN a \div b ELSE (a \div b) + 1

-----------------------------------------------------------------------------
(* The Record Provider: GET /employees?page=p&size=7 *)

\* number of records on page p of a collection of t records
RecordsOnPage(t, p) == Min(pageSize, Max(0, t - (p - 1) * pageSize))

\* the pages the server may report for a request of page p over t records:
\* the page asked, or the last existing page when it clamps
ServerPages(t, p) == {p, Max(1, Min(p, MathCeilDiv(t, pageSize)))}

NoResp == [kind |-> "none", n |-> 0, total |-> 0, page |-> 0]

\* the outcomes of one pending request for page p
Responses(p) ==
    IF p = Unpaged
    THEN { [kind |-> "ok", n |-> Min(t, pageSize), total |-> 0, page |-> 0] : t \in 0..MaxTotal }
         \cup { [kind |-> k, n |-> 0, total |-> 0, page |-> 0] :
                  k \in {"netErr", "httpErrJson", "httpErrNoJson"} }
    ELSE UNION { { [kind |-> "ok", n |-> RecordsOnPage(t, sp), total |-> t, page |-> sp] :
                     sp \in ServerPages(t, p) } : t \in 0..MaxTotal }
         \cup { [kind |-> k, n |-> 0, total |-> 0, page |-> 0] :
                  k \in {"netErr", "httpErrJson", "httpErrNoJson"} }

-----------------------------------------------------------------------------
(* Section switching *)

\* a showSection that forgets to hide the other section
ShowSectionDisplayKeepsOthers(target) ==
    [s \in Sections |-> IF s = target THEN "flex" ELSE sectionDisplay[s]]

\* showSection: admin.js hides both sections with class and style, user.js
\* with the style only; the target gets display flex and loses the class
ShowSectionDisplay(target) == [s \in Sections |-> IF s = target THEN "flex" ELSE "none"]

ShowSectionHidden(target) ==
    [s \in Sections |->
        IF s = target THEN FALSE
        ELSE IF script = "admin" THEN TRUE ELSE sectionHidden[s]]

\* setActiveTab
SetActiveTab(activeTab) == (navActive \ NavTabs) \cup {activeTab}

-----------------------------------------------------------------------------
(* Pagination *)

\* a page count rounded down and bumped instead of rounded up
UITotalPagesFloorPlusOne(total) == (total \div pageSize) + 1

\* updatePaginationUI: const totalPages = Math.ceil(totalEmployees / pageSize) || 1
UITotalPages(total) ==
    LET c == MathCeilDiv(total, pageSize) IN IF c = 0 THEN 1 ELSE c

PrevDisabledOf(page) == page <= 1

\* a next control that stays enabled on the last page
NextDisabledOfStrict(page, total) == page > UITotalPages(total)

NextDisabledOf(page, total) == page >= UITotalPages(total)

\* a prev guard that lets page 1 through
PrevGuardInclusive(page) == page >= 1

\* the guard of the prev listener
PrevGuard(page) == page > 1

\* the guard of the next listener: Math.ceil without the "|| 1"
NextGuard(page, total) == page < MathCeilDiv(total, pageSize)

\* which branch of fetchUsers a response takes
FetchUsersBranch(r) ==
    IF r.kind \in {"netErr", "httpErrNoJson"} THEN "catch"
    ELSE IF r.kind = "ok" /\ r.n > 0 THEN "rows"
    ELSE "empty"

Loading == [kind |-> "loading", page |-> 0]

\* fetchUsers up to its first await: the placeholder and the request
IssueFetchUsers(page) ==
    /\ userRows' = Loading
    /\ inflight' = Append(inflight, page)
    /\ lastResp' = NoResp
    /\ overlapped' = (inflight # <<>>)

\* no run of prev/next clicks is being followed
NoBurst == [dir |-> "none", base |-> 0, n |-> 0, echoed |-> TRUE]

\* the run after a click in direction dir that issues a request: one more of
\* the same run while none of its requests has resolved, a new run from
\* currentPage when nothing else is pending, no run otherwise
ClickBurst(dir) ==
    IF burst.dir = dir /\ burst.n >= 1 /\ Len(inflight) = burst.n
    THEN [burst EXCEPT !.n = @ + 1]
    ELSE IF inflight = <<>>
         THEN [dir |-> dir, base |-> currentPage, n |-> 1, echoed |-> TRUE]
         ELSE NoBurst

\* the run after request i resolved with r: echoed stays TRUE while every
\* response carries records and reports the page that was asked
ResolveBurst(i, r) ==
    IF burst.dir = "none" THEN burst
    ELSE [burst EXCEPT !.echoed = @ /\ r.kind = "ok" /\ r.n > 0 /\ r.page = inflight[i]]

\* fetchClubs up to its first await
IssueFetchClubs ==
    /\ clubCards' = "loading"
    /\ clubInflight' = clubInflight + 1

-----------------------------------------------------------------------------

Init ==
    /\ script \in {"admin", "user"}
    /\ currentPage = 1
    /\ totalEmployees = 0
    /\ inflight = IF script = "admin" THEN <<1>> ELSE <<Unpaged>>
    /\ clubInflight = 0
    /\ userRows = Loading
    /\ clubCards = "html"
    /\ prevDisabled \in BOOLEAN
    /\ nextDisabled \in BOOLEAN
    /\ (script = "user" => ~prevDisabled /\ ~nextDisabled)
    /\ currentPageNumDisplay = HtmlText
    /\ totalPageNumDisplay = HtmlText
    /\ sectionDisplay = [s \in Sections |-> IF s = "employeesSection" THEN "flex" ELSE "none"]
    /\ sectionHidden \in [Sections -> BOOLEAN]
    /\ sectionHidden["employeesSection"] = FALSE
    /\ (script = "admin" => sectionHidden["clubSection"] = TRUE)
    /\ navActive = {"usersTab"}
    /\ lastResp = NoResp
    /\ overlapped = FALSE
    /\ burst = NoBurst

\* a usersTab listener that reloads the page it is on instead of page 1
UsersTabClickKeepsPage ==
    /\ Len(inflight) < MaxInFlight
    /\ navActive' = SetActiveTab("usersTab")
    /\ sectionDisplay' = ShowSectionDisplay("employeesSection")
    /\ sectionHidden' = ShowSectionHidden("employeesSection")
    /\ currentPage' = currentPage
    /\ IF script = "admin"
       THEN IssueFetchUsers(currentPage)
       ELSE IssueFetchUsers(Unpaged)
    /\ burst' = NoBurst
    /\ UNCHANGED <<script, totalEmployees, clubVars, uiVars>>

\* usersTab click listener
UsersTabClick ==
    /\ Len(inflight) < MaxInFlight
    /\ navActive' = SetActiveTab("usersTab")
    /\ sectionDisplay' = ShowSectionDisplay("employeesSection")
    /\ sectionHidden' = ShowSectionHidden("employeesSection")
    /\ IF script = "admin"
       THEN /\ currentPage' = 1
            /\ IssueFetchUsers(1)
       ELSE /\ currentPage' = currentPage
            /\ IssueFetchUsers(Unpaged)
    /\ burst' = NoBurst
    /\ UNCHANGED <<script, totalEmployees, clubVars, uiVars>>

\* clubTab click listener
ClubTabClick ==
    /\ clubInflight < MaxClubInFlight
    /\ navActive' = SetActiveTab("clubTab")
    /\ sectionDisplay' = ShowSectionDisplay("clubSection")
    /\ sectionHidden' = ShowSectionHidden("clubSection")
    /\ IssueFetchClubs
    /\ UNCHANGED <<script, pageVars, inflight, userRows, uiVars, lastResp, overlapped, burst>>

\* a prev listener that moves currentPage at click time, before any response
PrevPageClickOptimistic ==
    /\ script = "admin"
    /\ ~prevDisabled
    /\ IF PrevGuard(currentPage)
       THEN /\ Len(inflight) < MaxInFlight
            /\ currentPage' = currentPage - 1
            /\ IssueFetchUsers(currentPage - 1)
            /\ burst' = ClickBurst("prev")
            /\ UNCHANGED <<script, totalEmployees, clubVars, uiVars, secVars>>
       ELSE UNCHANGED vars

\* prevPageBtn click listener (a disabled button receives no click)
PrevPageClick ==
    /\ script = "admin"
    /\ ~prevDisabled
    /\ IF PrevGuard(currentPage)
       THEN /\ Len(inflight) < MaxInFlight
            /\ IssueFetchUsers(currentPage - 1)
            /\ burst' = ClickBurst("prev")
            /\ UNCHANGED <<script, pageVars, clubVars, uiVars, secVars>>
       ELSE UNCHANGED vars

\* a next listener that moves currentPage at click time, before any response
NextPageClickOptimistic ==
    /\ script = "admin"
    /\ ~nextDisabled
    /\ IF NextGuard(currentPage, totalEmployees)
       THEN /\ Len(inflight) < MaxInFlight
            /\ currentPage' = currentPage + 1
            /\ IssueFetchUsers(currentPage + 1)
            /\ burst' = ClickBurst("next")
            /\ UNCHANGED <<script, totalEmployees, clubVars, uiVars, secVars>>
       ELSE UNCHANGED vars

\* nextPageBtn click listener
NextPageClick ==
    /\ script = "admin"
    /\ ~nextDisabled
    /\ IF NextGuard(currentPage, totalEmployees)
       THEN /\ Len(inflight) < MaxInFlight
            /\ IssueFetchUsers(currentPage + 1)
            /\ burst' = ClickBurst("next")
            /\ UNCHANGED <<script, pageVars, clubVars, uiVars, secVars>>
       ELSE UNCHANGED vars

\* updatePaginationUI, on the page state the handler has just stored
UpdatePaginationUI(page, total) ==
    /\ currentPageNumDisplay' = page
    /\ totalPageNumDisplay' = UITotalPages(total)
    /\ prevDisabled' = PrevDisabledOf(page)
    /\ nextDisabled' = NextDisabledOf(page, total)

\* the sequence s without its i-th element
RemoveAt(s, i) == [j \in 1..(Len(s) - 1) |-> IF j < i THEN s[j] ELSE s[j + 1]]

\* admin.js fetchUsers from the await on: the i-th pending request resolves with r
OnPageLoaded(i, r) ==
    /\ script = "admin"
    /\ inflight' = RemoveAt(inflight, i)
    /\ lastResp' = r
    /\ CASE FetchUsersBranch(r) = "rows" ->
              /\ userRows' = [kind |-> "rows", page |-> r.page]
              /\ totalEmployees' = r.total
              /\ currentPage' = r.page
              /\ UpdatePaginationUI(r.page, r.total)
         [] FetchUsersBranch(r) = "empty" ->
              /\ userRows' = [kind |-> "empty", page |-> 0]
              /\ totalEmployees' = 0
              /\ currentPage' = currentPage
              /\ UpdatePaginationUI(currentPage, 0)
         [] OTHER ->
              /\ userRows' = [kind |-> "error", page |-> 0]
              /\ UNCHANGED <<pageVars, uiVars>>
    /\ burst' = ResolveBurst(i, r)
    /\ UNCHANGED <<script, clubVars, secVars, overlapped>>

\* user.js fetchUsers from the await on
OnUsersLoaded(i, r) ==
    /\ script = "user"
    /\ inflight' = RemoveAt(inflight, i)
    /\ lastResp' = r
    /\ userRows' = [kind |-> IF FetchUsersBranch(r) = "catch" THEN "error"
                             ELSE FetchUsersBranch(r),
                    page |-> 0]
    /\ UNCHANGED <<script, pageVars, uiVars, clubVars, secVars, overlapped, burst>>

\* fetchClubs from the await on: cards, "No clubs found." or the error text
OnClubsLoaded(outcome) ==
    /\ clubInflight > 0
    /\ clubInflight' = clubInflight - 1
    /\ clubCards' = outcome
    /\ UNCHANGED <<script, pageVars, inflight, userRows, uiVars, secVars, lastResp, overlapped, burst>>

Next ==
    \/ UsersTabClick
    \/ ClubTabClick
    \/ PrevPageClick
    \/ NextPageClick
    \/ \E i \in 1..Len(inflight) : \E r \in Responses(inflight[i]) : OnPageLoaded(i, r)
    \/ \E i \in 1..Len(inflight) : \E r \in Responses(inflight[i]) : OnUsersLoaded(i, r)
    \/ \E outcome \in {"cards", "empty", "error"} : OnClubsLoaded(outcome)

Spec == Init /\ [][Next]_vars

-----------------------------------------------------------------------------
(* The page count as the specification states it: max(1, ceil(total / 7)), *)
(* the ceiling being the least n with n * 7 >= total.                      *)

CeilPages(total) == CHOOSE n \in 0..total : n * 7 >= total /\ (n = 0 \/ (n - 1) * 7 < total)

TotalPages(total) == Max(1, CeilPages(total))

Visible(s) == sectionDisplay[s] = "flex" /\ ~sectionHidden[s]

\* a response whose HTTP exchange succeeded, with or without records
LoadedOk == script = "admin" /\ lastResp.kind = "ok"

\* a response that is a transport failure: no answer, or a non-success status
FailureKinds == {"netErr", "httpErrJson", "httpErrNoJson"}

-----------------------------------------------------------------------------

\* C1: after a successfully handled page-fetch response (HTTP ok, records or
\* none) the page state satisfies 1 <= currentPage <= totalPages.
C1_PageWithinBounds ==
    LoadedOk => (1 <= currentPage /\ currentPage <= TotalPages(totalEmployees))

\* C2: a step that handles a failed page fetch (network error or non-success
\* HTTP status) keeps currentPage and totalEmployees, shows the connectivity
\* error placeholder and issues no request.
C2_FailureKeepsState ==
    [][ (script = "admin" /\ lastResp'.kind \in FailureKinds)
          => /\ currentPage' = currentPage
             /\ totalEmployees' = totalEmployees
             /\ userRows'.kind = "error"
             /\ Len(inflight') <= Len(inflight) ]_vars

\* C3: a request issued by a prev or next click asks for a page t with
\* 1 <= t <= totalPages, totalPages taken from totalEmployees at click time.
C3_ClickTargetInRange ==
    [][ ((PrevPageClick \/ NextPageClick) /\ Len(inflight') > Len(inflight))
          => /\ 1 <= inflight'[Len(inflight')]
             /\ inflight'[Len(inflight')] <= TotalPages(totalEmployees) ]_vars

\* C4: a prev click at currentPage = 1 and a next click at currentPage =
\* totalPages issue no request and leave currentPage, totalEmployees and the
\* rendered list as they were.
C4_BoundaryClickNoOp ==
    [][ ( \/ (PrevPageClick /\ currentPage = 1)
          \/ (NextPageClick /\ currentPage = TotalPages(totalEmployees)) )
          => UNCHANGED <<currentPage, totalEmployees, userRows, inflight>> ]_vars

\* C4 witness: the users tab was clicked on a later page, so prev is still
\* enabled while currentPage is 1 again.
C4_Witness ==
    /\ script = "admin" /\ currentPage = 1 /\ ~prevDisabled
    /\ totalEmployees = 15 /\ userRows.kind = "loading"

\* C5: after every successful response, empty or not, totalEmployees is the
\* response's total and currentPage the response's page.
C5_StateFromResponse ==
    LoadedOk => (totalEmployees = lastResp.total /\ currentPage = lastResp.page)

\* C6: when a successful load leaves totalEmployees = 0, one page is
\* reported, prev and next are both disabled and "No users found." is shown.
C6_EmptyCollectionUI ==
    (LoadedOk /\ totalEmployees = 0)
        => /\ totalPageNumDisplay = 1
           /\ prevDisabled /\ nextDisabled
           /\ userRows.kind = "empty"

\* C7: exactly one section is visible, it is the section of the tab clicked
\* last (employees at first) and exactly that tab carries the active mark.
C7_OneSectionOneTab ==
    /\ [] ( /\ Cardinality({s \in Sections : Visible(s)}) = 1
            /\ Cardinality(navActive) = 1
            /\ Visible("employeesSection") <=> "usersTab" \in navActive
            /\ Visible("clubSection") <=> "clubTab" \in navActive )
    /\ [][ /\ UsersTabClick => (Visible("employeesSection") /\ navActive = {"usersTab"})'
           /\ ClubTabClick => (Visible("clubSection") /\ navActive = {"clubTab"})'
           /\ ~(UsersTabClick \/ ClubTabClick) => UNCHANGED secVars ]_vars

\* C7 witness: the club section showing after the club tab was clicked, in
\* the script that hides by style only.
C7_Witness ==
    /\ script = "user" /\ Visible("clubSection") /\ navActive = {"clubTab"}
    /\ ~Visible("employeesSection") /\ clubCards # "html"

\* C8: once overlapping fetches have all resolved, the page state is the one
\* of the response that resolved last.
C8_LastResponseWins ==
    (LoadedOk /\ overlapped /\ inflight = <<>>)
        => (currentPage = lastResp.page /\ totalEmployees = lastResp.total)

\* C9: after each successfully handled page load prev is disabled iff
\* currentPage <= 1 and next is disabled iff currentPage >= totalPages.
C9_ControlsMatchState ==
    LoadedOk => /\ prevDisabled <=> (currentPage <= 1)
                /\ nextDisabled <=> (currentPage >= TotalPages(totalEmployees))

\* C9 witness: a middle page, both controls enabled.
C9_Witness ==
    /\ LoadedOk /\ currentPage = 2 /\ totalEmployees = 15
    /\ ~prevDisabled /\ ~nextDisabled

\* C10: the page count the controller displays is max(1, ceil(total / 7));
\* 0 records give 1 page, 15 records give 3.
C10_TotalPagesShown ==
    (script = "admin" /\ totalPageNumDisplay # HtmlText)
        => /\ totalPageNumDisplay = TotalPages(totalEmployees)
           /\ (totalEmployees = 0 => totalPageNumDisplay = 1)
           /\ (totalEmployees = 15 => totalPageNumDisplay = 3)

\* C10 witness: 15 records shown as 3 pages.
C10_Witness ==
    script = "admin" /\ totalEmployees = 15 /\ totalPageNumDisplay = 3

\* a step in which a pending /employees request resolves
ResponseHandled == Len(inflight') < Len(inflight)

C12_TabClickRequests ==
    [][ /\ (script = "admin" /\ UsersTabClick)
            => /\ inflight' = Append(inflight, 1)
               /\ clubInflight' = clubInflight
        /\ (script = "admin" /\ ClubTabClick)
            => /\ clubInflight' = clubInflight + 1
               /\ inflight' = inflight
               /\ UNCHANGED pageVars ]_vars

\* C12 witness: from page 3 the club tab and then the users tab were
\* clicked; one club request and one request for page 1 are pending.
C12_Witness ==
    /\ script = "admin" /\ currentPageNumDisplay = 3 /\ totalEmployees = 15
    /\ clubInflight = 1 /\ clubCards = "loading"
    /\ inflight = <<1>> /\ navActive = {"usersTab"}

\* C13: in every state with no page fetch in flight (and the controls set
\* by the script at least once) prev is disabled iff currentPage <= 1 and
\* next is disabled iff currentPage >= max(1, ceil(totalEmployees / 7)),
\* also after a users-tab click whose fetch fails.
C13_ControlsAgreeWhenIdle ==
    (script = "admin" /\ inflight = <<>> /\ currentPageNumDisplay # HtmlText)
        => /\ prevDisabled <=> (currentPage <= 1)
           /\ nextDisabled <=> (currentPage >= TotalPages(totalEmployees))

\* the page a run of clicks in direction dir from page base asks for
BurstTarget == IF burst.dir = "next" THEN burst.base + 1 ELSE burst.base - 1

-----------------------------------------------------------------------------

TypeOK ==
    /\ script \in {"admin", "user"}
    /\ currentPage \in Int
    /\ totalEmployees \in 0..(MaxTotal + 1)
    /\ Len(inflight) <= MaxInFlight + 1
    /\ userRows.kind \in {"loading", "rows", "empty", "error"}

====
